---- MODULE Spec2Model ----
(***************************************************************************)
(* Order placement with inventory reservation (src/app.js, POST /orders)   *)
(* together with the product handlers that race with it and the read      *)
(* handlers (GET /orders/:id, GET /orders, GET /products/:id).             *)
(*                                                                         *)
(* The store is the committed content of the Product, Order and OrderItem  *)
(* tables.  A placement is one logical flow per request: it waits at every *)
(* storage call, so it is split at its awaits: the product lookup, and the *)
(* statements of prisma.$transaction, which run in order inside one        *)
(* storage transaction whose writes become visible at commit.              *)
(***************************************************************************)
EXTENDS Integers, Sequences, FiniteSets, TLC

\* ---------------------------------------------------------------- bounds
MaxStock == 5
LowStock == 1
MaxQty == 3

ProductIds == {"p1", "p2"}
Reqs == {"r1", "r2"}
InitStocks == {LowStock, MaxStock}
\* quantity 0 is the shape-invalid quantity
Quantities == 0..MaxQty
\* unitPrice values a request body can carry: the listed price and another one
UnitPrices == {5, 10}
ListedPrices == {10}
\* price values PATCH /products/:id sets
PatchPrices == {99}

\* the line items of a request body, as the client sends them
Items(unitPrices) == [productId : ProductIds, quantity : Quantities, unitPrice : unitPrices]
\* request bodies: orderItems with zero, one or two line items
BodiesOf(items) == {<< >>} \cup {<<i>> : i \in items} \cup {<<i, j>> : i, j \in items}
Bodies == BodiesOf(Items(UnitPrices))
ListedBodies == BodiesOf(Items(ListedPrices))

NoRow == [found |-> FALSE, price |-> 0, stock |-> 0]
NoWrite == [written |-> FALSE, stock |-> 0]
NoFetch == [op |-> "none", id |-> "none", status |-> 0, items |-> {}, total |-> 0,
            row |-> NoRow, list |-> {}, fresh |-> FALSE, again |-> FALSE, open |-> {}]

VARIABLES
    products,    \* Product table: id -> [exists, price, stock]
    orders,      \* Order table: the ids of the visible Order rows
    orderItems,  \* OrderItem table: the visible OrderItem rows
    req,         \* per request of POST /orders: the handler's position and locals
    fetch,       \* the last answer of a read handler, with its history: fresh (no
                 \* write since), again (it repeats the read answered before, with no
                 \* write in between), open (the transactions that had written then)
    initStock    \* the stock the products started with (history)

vars == <<products, orders, orderItems, req, fetch, initStock>>

\* ------------------------------------------------------- pure helpers
Range(s) == {s[i] : i \in 1..Len(s)}

\* const productIds = orderItems.map((orderItem) => orderItem.productId)
productIdsOf(items) == [i \in 1..Len(items) |-> items[i].productId]

\* orderItems.find(...).quantity : the quantity of the FIRST line naming productId
getQuantity(items, productId) ==
    LET i == CHOOSE i \in 1..Len(items) :
                 /\ items[i].productId = productId
                 /\ \A j \in 1..(i-1) : items[j].productId # productId
    IN items[i].quantity

\* assert(req.body, CreateOrder): non-empty line items, positive quantities
CreateOrder(items) ==
    /\ Len(items) > 0
    /\ \A i \in 1..Len(items) : items[i].quantity >= 1

\* prisma.product.findMany({ where: { id: { in: productIds } } })
findMany(ids) ==
    [p \in ProductIds |->
        IF p \in Range(ids) /\ products[p].exists
        THEN [found |-> TRUE, price |-> products[p].price, stock |-> products[p].stock]
        ELSE NoRow]

\* products.every((product) => product.stock >= getQuantity(product.id))
isSufficientStock(rows, items) ==
    \A p \in ProductIds : rows[p].found => rows[p].stock >= getQuantity(items, p)

\* asyncHandler without its last else: an error of no listed kind gets no answer
asyncHandlerNoElse(e) ==
    IF e \in {"StructError", "PrismaClientValidationError"} THEN 400
    ELSE IF e = "P2025" THEN 404
    ELSE 0

\* asyncHandler without the P2025 branch: a missing row is answered like any error
asyncHandlerNoP2025(e) ==
    IF e \in {"StructError", "PrismaClientValidationError"} THEN 400
    ELSE 500

\* asyncHandler: the status an error is answered with
asyncHandler(e) ==
    IF e \in {"StructError", "PrismaClientValidationError"} THEN 400
    ELSE IF e = "P2025" THEN 404
    ELSE 500

\* ------------------------------------------------------------ state
IdleReq == [pc |-> "idle", body |-> << >>, snap |-> [p \in ProductIds |-> NoRow],
            step |-> 0, txStock |-> [p \in ProductIds |-> NoWrite],
            status |-> 0, error |-> "none", named |-> {}]

Init ==
    /\ initStock \in [ProductIds -> InitStocks]
    /\ products = [p \in ProductIds |-> [exists |-> TRUE, price |-> 10, stock |-> initStock[p]]]
    /\ orders = {}
    /\ orderItems = {}
    /\ req = [r \in Reqs |-> IdleReq]
    /\ fetch = NoFetch

\* the row of product p is write-locked by a transaction other than r: an update
\* inside a transaction keeps its row locked until the transaction ends
LockedByOther(r, p) ==
    \E o \in Reqs \ {r} : req[o].pc = "tx" /\ req[o].txStock[p].written
Locked(p) == \E o \in Reqs : req[o].pc = "tx" /\ req[o].txStock[p].written

\* the handler throws e: asyncHandler answers with the status and e.message,
\* which names no product; the handler's transaction, if any, is over
Throw(r, e) ==
    [req[r] EXCEPT !.pc = "done", !.status = asyncHandler(e), !.error = e, !.named = {},
                   !.txStock = [p \in ProductIds |-> NoWrite]]

\* POST /orders without assert(req.body, CreateOrder): any body goes on to the lookup
PlaceOrderLookupNoAssert(r, bodies) ==
    /\ req[r].pc = "idle"
    /\ \E b \in bodies :
         LET rows == findMany(productIdsOf(b))
         IN req' = [req EXCEPT ![r] =
                IF ~isSufficientStock(rows, b)
                THEN [Throw(r, "Insufficient Stock") EXCEPT !.body = b, !.snap = rows]
                ELSE [req[r] EXCEPT !.pc = "tx", !.body = b, !.snap = rows, !.step = 0]]
    /\ UNCHANGED <<products, orders, orderItems, fetch, initStock>>

\* POST /orders up to the transaction: validation, product lookup, admission
PlaceOrderLookup(r, bodies) ==
    /\ req[r].pc = "idle"
    /\ \E b \in bodies :
         LET rows == findMany(productIdsOf(b))
         IN req' = [req EXCEPT ![r] =
                IF ~CreateOrder(b)
                THEN [Throw(r, "StructError") EXCEPT !.body = b]
                ELSE IF ~isSufficientStock(rows, b)
                THEN [Throw(r, "Insufficient Stock") EXCEPT !.body = b, !.snap = rows]
                ELSE [req[r] EXCEPT !.pc = "tx", !.body = b, !.snap = rows, !.step = 0]]
    /\ UNCHANGED <<products, orders, orderItems, fetch, initStock>>

\* ------------------------------------------------ the transaction
\* only the first line item is inserted: orderItems: { create: orderItems[0] }
ItemRowsFirst(r) ==
    {[orderId |-> r, line |-> i, productId |-> req[r].body[i].productId,
      quantity |-> req[r].body[i].quantity, unitPrice |-> req[r].body[i].unitPrice]
        : i \in 1..(IF Len(req[r].body) > 0 THEN 1 ELSE 0)}

\* the OrderItem rows prisma.order.create inserts: orderItems: { create: orderItems }
\* takes every field of a row from the request's line item
ItemRows(r) ==
    {[orderId |-> r, line |-> i, productId |-> req[r].body[i].productId,
      quantity |-> req[r].body[i].quantity, unitPrice |-> req[r].body[i].unitPrice]
        : i \in 1..Len(req[r].body)}

\* an OrderItem row references a Product row that must exist when it is inserted
ProductRowsExist(items) ==
    \A i \in 1..Len(items) : products[items[i].productId].exists

\* the store with the writes transaction r has made so far applied
Applied(r) ==
    [products |-> [p \in ProductIds |->
                     IF req[r].txStock[p].written
                     THEN [products[p] EXCEPT !.stock = req[r].txStock[p].stock]
                     ELSE products[p]],
     orders |-> IF req[r].step >= 1 THEN orders \cup {r} ELSE orders,
     orderItems |-> IF req[r].step >= 1 THEN orderItems \cup ItemRows(r) ELSE orderItems]

\* the statements run one by one outside a transaction: a failure keeps
\* the writes made before it
StoreWithoutTransaction(r) == Applied(r)

\* what a transaction that fails leaves visible: nothing of it
StoreAfterRollback(r) ==
    [products |-> products, orders |-> orders, orderItems |-> orderItems]

\* what a transaction that commits makes visible: all of its writes
StoreAfterCommit(r) == Applied(r)

\* the last answer read stops being fresh when the store is written
Seen(written) == IF written THEN [fetch EXCEPT !.fresh = FALSE] ELSE fetch

SetStore(s) ==
    /\ products' = s.products
    /\ orders' = s.orders
    /\ orderItems' = s.orderItems
    /\ fetch' = Seen(<<s.products, s.orders, s.orderItems>> # <<products, orders, orderItems>>)

\* a statement of the transaction throws e: rollback, and asyncHandler answers
Abort(r, e) ==
    /\ req' = [req EXCEPT ![r] = Throw(r, e)]
    /\ SetStore(StoreAfterRollback(r))
    /\ UNCHANGED initStock

\* first statement of prisma.$transaction: prisma.order.create with nested orderItems
TxCreate(r) ==
    /\ req[r].pc = "tx"
    /\ req[r].step = 0
    /\ IF ProductRowsExist(req[r].body)
       THEN /\ req' = [req EXCEPT ![r].step = 1]
            /\ UNCHANGED <<products, orders, orderItems, fetch, initStock>>
       ELSE Abort(r, "P2003")

\* statement step+1 of the transaction: queryPromises[step-1],
\* prisma.product.update({ where: {id}, data: { stock: { decrement: getQuantity(id) } } })
TxUpdate(r) ==
    /\ req[r].pc = "tx"
    /\ req[r].step >= 1
    /\ req[r].step <= Len(req[r].body)
    /\ LET productId == productIdsOf(req[r].body)[req[r].step]
           cur == IF req[r].txStock[productId].written
                  THEN req[r].txStock[productId].stock
                  ELSE products[productId].stock
       IN /\ ~LockedByOther(r, productId)
          /\ IF products[productId].exists
             THEN /\ req' = [req EXCEPT ![r].step = @ + 1,
                                 ![r].txStock[productId] =
                                     [written |-> TRUE,
                                      stock |-> cur - getQuantity(req[r].body, productId)]]
                  /\ UNCHANGED <<products, orders, orderItems, fetch, initStock>>
             ELSE Abort(r, "P2025")

\* end of prisma.$transaction: commit, then res.status(201).send(order)
TxCommit(r) ==
    /\ req[r].pc = "tx"
    /\ req[r].step = Len(req[r].body) + 1
    /\ SetStore(StoreAfterCommit(r))
    /\ req' = [req EXCEPT ![r].pc = "done", ![r].status = 201,
                          ![r].txStock = [p \in ProductIds |-> NoWrite]]
    /\ UNCHANGED initStock

\* the storage layer fails while the transaction is open
TxFault(r) ==
    /\ req[r].pc = "tx"
    /\ Abort(r, "StorageFault")

\* the product the next statement of r's transaction has to lock
WaitsFor(r) ==
    IF req[r].pc = "tx" /\ req[r].step >= 1 /\ req[r].step <= Len(req[r].body)
    THEN {productIdsOf(req[r].body)[req[r].step]}
    ELSE {}

\* two transactions wait for each other's row lock: the storage layer aborts one
TxDeadlock(r) ==
    /\ \E o \in Reqs \ {r} :
         /\ \E p \in WaitsFor(r) : req[o].pc = "tx" /\ req[o].txStock[p].written
         /\ \E p \in WaitsFor(o) : req[r].pc = "tx" /\ req[r].txStock[p].written
    /\ Abort(r, "Deadlock")

\* the statements of prisma.$transaction([order.create, ...queryPromises])
PlaceOrderTx(r) ==
    \/ TxCreate(r)
    \/ TxUpdate(r)
    \/ TxCommit(r)
    \/ TxFault(r)

\* ------------------------------------------------ product handlers
\* DELETE /products/:id : prisma.product.delete, P2025 (404) when there is no row.
\* It waits while a transaction holds the row's write lock; the OrderItems that
\* reference the product stay as they are.
DeleteProduct(p) ==
    /\ ~Locked(p)
    /\ products' = IF products[p].exists
                   THEN [products EXCEPT ![p] = [exists |-> FALSE, price |-> 0, stock |-> 0]]
                   ELSE products
    /\ fetch' = Seen(products[p].exists)
    /\ UNCHANGED <<orders, orderItems, req, initStock>>

\* PATCH /products/:id with a body that sets the price: prisma.product.update,
\* P2025 (404) when there is no row
PatchProduct(p) ==
    /\ ~Locked(p)
    /\ \E price \in PatchPrices :
         products' = IF products[p].exists
                     THEN [products EXCEPT ![p].price = price]
                     ELSE products
    /\ fetch' = Seen(products[p].exists)
    /\ UNCHANGED <<orders, orderItems, req, initStock>>

\* ------------------------------------------------ read handlers
\* reads outside a transaction see the rows of every open transaction as well
ReadUncommitted ==
    [products |-> [p \in ProductIds |->
                     IF \E r \in Reqs : req[r].pc = "tx" /\ req[r].txStock[p].written
                     THEN LET r == CHOOSE r \in Reqs : req[r].pc = "tx" /\ req[r].txStock[p].written
                          IN [products[p] EXCEPT !.stock = req[r].txStock[p].stock]
                     ELSE products[p]],
     orders |-> orders \cup {r \in Reqs : req[r].pc = "tx" /\ req[r].step >= 1},
     orderItems |-> orderItems \cup
         UNION {ItemRows(r) : r \in {r \in Reqs : req[r].pc = "tx" /\ req[r].step >= 1}}]

\* what a read outside a transaction sees: the committed rows only
ReadCommitted ==
    [products |-> products, orders |-> orders, orderItems |-> orderItems]

\* the price of a line taken from the product as it is now
LinePriceNow(orderItem) == products[orderItem.productId].price

\* orderItem.unitPrice in the reducer of GET /orders/:id
LinePrice(orderItem) == orderItem.unitPrice

\* the accumulator kept from the answer before
TotalCarried == fetch.total

\* the initial value of the reducer of GET /orders/:id
TotalStart == 0

\* order.orderItems.reduce((acc, orderItem) => acc + orderItem.unitPrice * orderItem.quantity, 0)
RECURSIVE reduceTotal(_, _)
reduceTotal(items, acc) ==
    IF items = {} THEN acc
    ELSE LET orderItem == CHOOSE it \in items : \A o \in items : it.line <= o.line
         IN reduceTotal(items \ {orderItem}, acc + LinePrice(orderItem) * orderItem.quantity)

\* the answer of read handler op for id, sent with res.send
Answer(op, id, status) ==
    [NoFetch EXCEPT !.op = op, !.id = id, !.status = status, !.fresh = TRUE,
                    !.again = (fetch.fresh /\ fetch.op = op /\ fetch.id = id),
                    !.open = {r \in Reqs : req[r].pc = "tx" /\ req[r].step >= 1}]

\* GET /orders/:id : findUniqueOrThrow with orderItems, P2025 (404) when there is no row
GetOrder(id) ==
    /\ fetch' =
          IF id \in ReadCommitted.orders
          THEN LET items == {it \in ReadCommitted.orderItems : it.orderId = id}
               IN [Answer("GET /orders/:id", id, 200) EXCEPT
                       !.items = items, !.total = reduceTotal(items, TotalStart)]
          ELSE Answer("GET /orders/:id", id, asyncHandler("P2025"))
    /\ UNCHANGED <<products, orders, orderItems, req, initStock>>

\* GET /orders : findMany, the Order rows without their items and without a total
ListOrders ==
    /\ fetch' = [Answer("GET /orders", "none", 200) EXCEPT !.list = ReadCommitted.orders]
    /\ UNCHANGED <<products, orders, orderItems, req, initStock>>

\* GET /products/:id : findUnique, the row or null
GetProduct(p) ==
    /\ fetch' = [Answer("GET /products/:id", p, 200) EXCEPT
                    !.row = IF ReadCommitted.products[p].exists
                            THEN [found |-> TRUE,
                                  price |-> ReadCommitted.products[p].price,
                                  stock |-> ReadCommitted.products[p].stock]
                            ELSE NoRow]
    /\ UNCHANGED <<products, orders, orderItems, req, initStock>>

\* ------------------------------------------------ specifications
\* one placement racing with the product handlers
Next ==
    \/ PlaceOrderLookup("r1", Bodies)
    \/ PlaceOrderTx("r1")
    \/ \E p \in ProductIds : DeleteProduct(p)
    \/ \E p \in ProductIds : PatchProduct(p)

Spec == Init /\ [][Next]_vars

\* concurrent placements only: no other writer of the Product table
NextOrders ==
    \E r \in Reqs :
        \/ PlaceOrderLookup(r, ListedBodies)
        \/ PlaceOrderTx(r)
        \/ TxDeadlock(r)

SpecOrders == Init /\ [][NextOrders]_vars

\* one placement racing with the price changes and the order fetches
NextFetch ==
    \/ PlaceOrderLookup("r1", Bodies)
    \/ PlaceOrderTx("r1")
    \/ \E p \in ProductIds : PatchProduct(p)
    \/ \E id \in Reqs : GetOrder(id)

SpecFetch == Init /\ [][NextFetch]_vars

\* one placement racing with the reads of the Order and Product tables
NextReads ==
    \/ PlaceOrderLookup("r1", ListedBodies)
    \/ PlaceOrderTx("r1")
    \/ \E id \in Reqs : GetOrder(id)
    \/ ListOrders
    \/ \E p \in ProductIds : GetProduct(p)

SpecReads == Init /\ [][NextReads]_vars

\* ------------------------------------------------ what the claims speak of
\* the quantity a request asks of product p: the sum over its lines naming p
RECURSIVE Requested(_, _)
Requested(items, p) ==
    IF Len(items) = 0 THEN 0
    ELSE (IF items[1].productId = p THEN items[1].quantity ELSE 0)
         + Requested(Tail(items), p)

\* the line items of body b name product p
Names(b, p) == \E i \in 1..Len(b) : b[i].productId = p

\* the OrderItem rows of order r that are visible
VisibleItems(r) == {it \in orderItems : it.orderId = r}

\* nothing of placement r is visible
NoTrace(r) == r \notin orders /\ VisibleItems(r) = {}

\* C1: in every reachable state of concurrent placements (no other writer of
\* stock) the stock of every product is >= 0.
C1_StockNeverNegative ==
    \A p \in ProductIds : products[p].stock >= 0

\* C2: two placements that read the same stock of a product never both succeed
\* when their combined requested quantity exceeds that stock; with stock 5 and
\* two simultaneous placements of quantity 3, exactly one succeeds, the other is
\* refused for insufficient stock, and the final stock is 2.
C2_NoOversell ==
    \A r1, r2 \in Reqs : \A p \in ProductIds :
        (/\ r1 # r2
         /\ req[r1].pc = "done" /\ req[r2].pc = "done"
         /\ req[r1].snap[p].found /\ req[r2].snap[p].found
         /\ req[r1].snap[p].stock = req[r2].snap[p].stock
         /\ Requested(req[r1].body, p) + Requested(req[r2].body, p) > req[r1].snap[p].stock)
        => /\ ~(req[r1].status = 201 /\ req[r2].status = 201)
           /\ (/\ req[r1].snap[p].stock = 5
               /\ Len(req[r1].body) = 1 /\ req[r1].body[1].quantity = 3
               /\ Len(req[r2].body) = 1 /\ req[r2].body[1].quantity = 3
               /\ req[r1].status = 201
               /\ req[r2].error \notin {"StorageFault", "Deadlock"})
              => (req[r2].error = "Insufficient Stock" /\ products[p].stock = 2)

\* C3: a valid request whose every line asks no more than the current stock is
\* admitted, and its commit takes from every product exactly the quantity the
\* request asks of it, leaving the products it does not name unchanged.
C3_CommitTakesRequested ==
    [][\A r \in Reqs :
         /\ (/\ req[r].pc = "idle" /\ req'[r].pc # "idle"
             /\ CreateOrder(req'[r].body)
             /\ \A i \in 1..Len(req'[r].body) :
                   /\ products[req'[r].body[i].productId].exists
                   /\ req'[r].body[i].quantity <= products[req'[r].body[i].productId].stock)
            => req'[r].pc = "tx"
         /\ (/\ req[r].pc = "tx" /\ req'[r].status = 201
             /\ \A i \in 1..Len(req[r].body) :
                   req[r].body[i].quantity <= products[req[r].body[i].productId].stock)
            => \A p \in ProductIds :
                   products'[p].stock = products[p].stock - Requested(req[r].body, p)]_vars

\* C4: a request with a line whose quantity exceeds the stock read for its
\* product, whichever line of the request it is, is refused as a whole with the
\* insufficient-stock error and leaves no Order and no OrderItem visible.
C4_ShortfallRefused ==
    \A r \in Reqs :
        (/\ req[r].pc # "idle"
         /\ CreateOrder(req[r].body)
         /\ \E i \in 1..Len(req[r].body) :
               /\ req[r].snap[req[r].body[i].productId].found
               /\ req[r].body[i].quantity > req[r].snap[req[r].body[i].productId].stock)
        => (req[r].error = "Insufficient Stock" /\ NoTrace(r))

\* what the decrement statements of a placement with body b take from product p:
\* one decrement of getQuantity(p) per line naming p
Taken(b, p) ==
    Cardinality({i \in 1..Len(b) : b[i].productId = p}) * (IF Names(b, p) THEN getQuantity(b, p) ELSE 0)

\* the stock of p that the committed placements other than those in skip explain
RECURSIVE StockLeft(_, _, _)
StockLeft(p, rs, skip) ==
    IF rs = {} THEN initStock[p]
    ELSE LET r == CHOOSE r \in rs : TRUE
         IN StockLeft(p, rs \ {r}, skip)
            - (IF r \notin skip /\ req[r].status = 201 THEN Taken(req[r].body, p) ELSE 0)

\* C5: a placement whose transaction met a storage fault, at whichever
\* statement, is answered with a server error and leaves neither its Order, nor
\* any of its OrderItems, nor any of its stock decrements visible.
C5_FaultLeavesNothing ==
    \A r \in Reqs :
        req[r].error = "StorageFault"
        => /\ req[r].status = 500
           /\ NoTrace(r)
           /\ \A p \in ProductIds : products[p].stock = StockLeft(p, Reqs, {r})

\* a fault after the order insertion and a decrement, before the last decrement
C5_Witness ==
    \E r \in Reqs :
        /\ req[r].error = "StorageFault"
        /\ req[r].step >= 2
        /\ req[r].step <= Len(req[r].body)

\* C6: a placement naming a product that has no row when the products are
\* looked up ends with the not-found status 404 and leaves no Order, no
\* OrderItem and no stock decrement visible.
C6_MissingProductIsNotFound ==
    \A r \in Reqs :
        (/\ req[r].pc # "idle"
         /\ CreateOrder(req[r].body)
         /\ req[r].error # "StorageFault"
         /\ \E i \in 1..Len(req[r].body) : ~req[r].snap[req[r].body[i].productId].found)
        => /\ req[r].pc = "done" => req[r].status = 404
           /\ NoTrace(r)
           /\ \A p \in ProductIds : products[p].exists => products[p].stock = initStock[p]

\* C7: when a product the lookup found has no row any more as the transaction
\* runs, the placement ends with the not-found status 404 and nothing of it is
\* visible.
C7_VanishedProductIsNotFound ==
    [][\A r \in Reqs :
         (/\ req[r].pc = "tx" /\ req'[r].pc = "done"
          /\ req'[r].error \notin {"StorageFault", "Deadlock"}
          /\ \E i \in 1..Len(req[r].body) :
                /\ req[r].snap[req[r].body[i].productId].found
                /\ ~products[req[r].body[i].productId].exists)
         => /\ req'[r].status = 404
            /\ r \notin orders'
            /\ \A it \in orderItems' : it.orderId # r
            /\ \A p \in ProductIds : products'[p].stock = products[p].stock]_vars

\* C8: every visible OrderItem carries the quantity of its request line and the
\* price its product had when the placement looked it up, and no later step
\* changes a visible OrderItem.
C8_UnitPriceFromProduct ==
    [][/\ \A it \in orderItems' :
            /\ it.quantity = req'[it.orderId].body[it.line].quantity
            /\ it.unitPrice = req'[it.orderId].snap[it.productId].price
       /\ orderItems \subseteq orderItems']_vars

\* C9: a placement refused for insufficient stock is answered with a 4xx status,
\* different from the status of a storage fault, and the answer names the
\* products that fell short.
C9_ShortfallIsClientError ==
    \A r \in Reqs :
        req[r].error = "Insufficient Stock"
        => /\ req[r].status \in 400..499
           /\ req[r].status # asyncHandler("StorageFault")
           /\ req[r].named =
                 {p \in ProductIds : req[r].snap[p].found
                                     /\ req[r].snap[p].stock < Requested(req[r].body, p)}

\* C10: a placement is answered 201 exactly when its Order is visible, and then
\* all its OrderItems and all its decrements are; a finished placement that was
\* not answered 201 was answered with an error status and left nothing; the
\* stock is what the placements answered 201 took, no more and no less.
C10_AllOrNothing ==
    /\ \A r \in Reqs :
          /\ req[r].status = 201 <=> r \in orders
          /\ r \in orders => VisibleItems(r) = ItemRows(r)
          /\ r \notin orders => VisibleItems(r) = {}
          /\ req[r].pc = "done" <=> req[r].status \in {201, 400, 404, 500}
          /\ req[r].pc # "done" => req[r].status = 0
          /\ req[r].status \in {400, 404, 500} <=> req[r].error # "none"
    /\ \A p \in ProductIds : products[p].stock = StockLeft(p, Reqs, {})

\* one placement committed with two decrements while another one failed in its
\* transaction
C10_Witness ==
    \E r1, r2 \in Reqs :
        /\ req[r1].status = 201 /\ Len(req[r1].body) = 2
        /\ req[r2].status = 500 /\ req[r2].step >= 1

\* the sum over a set of OrderItem rows of unitPrice x quantity
RECURSIVE SumLines(_)
SumLines(items) ==
    IF items = {} THEN 0
    ELSE LET it == CHOOSE it \in items : TRUE
         IN it.unitPrice * it.quantity + SumLines(items \ {it})

\* the (unitPrice, quantity) pairs of a set of OrderItem rows
PriceQty(items) == {<<it.unitPrice, it.quantity>> : it \in items}

\* C11: an order fetched by id is answered with its visible OrderItems and a
\* total that is the sum of their unitPrice x quantity, whatever the products
\* cost now; items (10,2) and (5,1) give 25.
C11_TotalDerived ==
    (fetch.op = "GET /orders/:id" /\ fetch.status = 200)
    => /\ fetch.items = VisibleItems(fetch.id)
       /\ fetch.total = SumLines(fetch.items)
       /\ (Cardinality(fetch.items) = 2 /\ PriceQty(fetch.items) = {<<10, 2>>, <<5, 1>>})
          => fetch.total = 25

\* the order with items (10,2) and (5,1) fetched after the price of a product
\* it references was set to 99
C11_Witness ==
    /\ fetch.op = "GET /orders/:id" /\ fetch.status = 200 /\ fetch.fresh
    /\ Cardinality(fetch.items) = 2 /\ PriceQty(fetch.items) = {<<10, 2>>, <<5, 1>>}
    /\ fetch.total = 25
    /\ \E it \in fetch.items : products[it.productId].price = 99

\* C12: fetching an order id that has no Order row is answered 404 and changes
\* nothing stored.
C12_MissingOrderNotFound ==
    [][\A id \in Reqs :
         (/\ fetch' # fetch /\ fetch'.fresh
          /\ fetch'.op = "GET /orders/:id" /\ fetch'.id = id
          /\ id \notin orders)
         => /\ fetch'.status = 404
            /\ fetch'.items = {}
            /\ <<products, orders, orderItems, req>>' = <<products, orders, orderItems, req>>]_vars

\* an order id answered 404 while another order is visible
C12_Witness ==
    /\ fetch.op = "GET /orders/:id" /\ fetch.status = 404 /\ fetch.fresh
    /\ fetch.id \notin orders
    /\ orders # {}

\* C13: a request that fails the shape validation is answered 400 before any
\* read or write of the store: nothing was looked up, no Order, no OrderItem
\* and no stock changes, also when some of its lines are valid.
C13_InvalidShapeRejected ==
    \A r \in Reqs :
        (req[r].pc # "idle" /\ ~CreateOrder(req[r].body))
        => /\ req[r].pc = "done"
           /\ req[r].error = "StructError"
           /\ req[r].status \in 400..499
           /\ req[r].snap = [p \in ProductIds |-> NoRow]
           /\ req[r].step = 0
           /\ NoTrace(r)
           /\ \A p \in ProductIds : products[p].exists => products[p].stock = initStock[p]

\* a rejected request with one valid and one invalid line
C13_Witness ==
    \E r \in Reqs :
        /\ req[r].status = 400
        /\ Len(req[r].body) = 2
        /\ req[r].body[1].quantity >= 1
        /\ req[r].body[2].quantity = 0
        /\ products[req[r].body[1].productId].stock = initStock[req[r].body[1].productId]

\* C14: every visible Order belongs to one placement that was answered 201 and
\* has exactly one OrderItem per line of that placement's request, with the
\* line's product and quantity; no OrderItem is visible without its Order.
C14_OrdersComplete ==
    /\ \A r \in orders :
          /\ req[r].status = 201
          /\ Cardinality(VisibleItems(r)) = Len(req[r].body)
          /\ \A i \in 1..Len(req[r].body) :
                \E it \in VisibleItems(r) :
                    /\ it.line = i
                    /\ it.productId = req[r].body[i].productId
                    /\ it.quantity = req[r].body[i].quantity
    /\ \A it \in orderItems : it.orderId \in orders
    /\ Cardinality(orders) = Cardinality({r \in Reqs : req[r].status = 201})

\* two orders visible, one of them with two lines, while nothing else is in flight
C14_Witness ==
    /\ orders = Reqs
    /\ \E r \in orders : Cardinality(VisibleItems(r)) = 2

\* C15: an order fetched again, with no write since the fetch before, is
\* answered with the same status, the same OrderItems and the same total, and
\* the fetch changes nothing stored.
C15_ReadIdempotent ==
    [][\A id \in Reqs :
         (/\ fetch.op = "GET /orders/:id" /\ fetch.id = id /\ fetch.fresh
          /\ fetch' # fetch
          /\ fetch'.op = "GET /orders/:id" /\ fetch'.id = id /\ fetch'.fresh)
         => /\ fetch'.status = fetch.status
            /\ fetch'.items = fetch.items
            /\ fetch'.total = fetch.total
            /\ <<products, orders, orderItems, req>>' = <<products, orders, orderItems, req>>]_vars

\* an order with two lines fetched a second time
C15_Witness ==
    /\ fetch.op = "GET /orders/:id" /\ fetch.status = 200
    /\ fetch.again /\ fetch.fresh
    /\ Cardinality(fetch.items) = 2

\* the sum of the quantities of the visible OrderItems that reference p
RECURSIVE SoldQty(_, _)
SoldQty(items, p) ==
    IF items = {} THEN 0
    ELSE LET it == CHOOSE it \in items : TRUE
         IN (IF it.productId = p THEN it.quantity ELSE 0) + SoldQty(items \ {it}, p)

\* C16: for every product, the stock it started with minus its stock now is the
\* sum of the quantities of the visible OrderItems that reference it.
C16_StockConservation ==
    \A p \in ProductIds : initStock[p] - products[p].stock = SoldQty(orderItems, p)

\* answer f shows the Order of placement r
ShowsOrder(f, r) ==
    \/ f.op = "GET /orders/:id" /\ f.id = r /\ f.status = 200
    \/ f.op = "GET /orders" /\ r \in f.list

\* answer f is that of a read of the Order table
ReadsOrders(f, r) ==
    \/ f.op = "GET /orders/:id" /\ f.id = r
    \/ f.op = "GET /orders"

\* C17: a read answered while a placement's transaction is open shows nothing
\* of it; a product read after the Order was shown shows the stock decremented,
\* and an order read after the decremented stock was shown shows the Order.
C17_NoIntermediateState ==
    [][\A r \in Reqs :
         /\ r \in fetch'.open
            => /\ ~ShowsOrder(fetch', r)
               /\ \A it \in fetch'.items : it.orderId # r
               /\ (fetch'.op = "GET /products/:id" /\ fetch'.row.found)
                  => fetch'.row.stock = initStock[fetch'.id]
         /\ \A p \in ProductIds :
              Names(req[r].body, p)
              => /\ (/\ ShowsOrder(fetch, r)
                     /\ fetch'.op = "GET /products/:id" /\ fetch'.id = p /\ fetch'.row.found)
                    => fetch'.row.stock = initStock[p] - Taken(req[r].body, p)
                 /\ (/\ fetch.op = "GET /products/:id" /\ fetch.id = p /\ fetch.row.found
                     /\ fetch.row.stock # initStock[p]
                     /\ ReadsOrders(fetch', r))
                    => ShowsOrder(fetch', r)]_vars

\* an order fetch answered 404 while the transaction of that order had inserted
\* it and decremented a stock
C17_Witness ==
    \E r \in Reqs :
        /\ req[r].pc = "tx" /\ req[r].step >= 2
        /\ r \in fetch.open /\ fetch.fresh
        /\ fetch.op = "GET /orders/:id" /\ fetch.id = r /\ fetch.status = 404
====
